---- MODULE Spec2Model ----
(***************************************************************************)
(* A model of the question-to-query engine of NLToCypherConverter          *)
(* (src/nl_to_cypher.py): the ordered regular-expression rules, the query  *)
(* template handlers, the generative fallback, the executor, the answer    *)
(* formatter and answer_question, which sequences them.                    *)
(*                                                                         *)
(* Text is modelled as TLA+ strings, character by character: Len, \o and   *)
(* SubSeq act on strings as they do on sequences.                          *)
(***************************************************************************)
EXTENDS Integers, Sequences, FiniteSets, TLC

----------------------------------------------------------------------------
(* Python values.  A value carries its type, so that None, the empty       *)
(* string and 0 stay distinct and truthiness is computed as Python does.   *)

PyNone == [type |-> "NoneType"]

PyStr(s) == [type |-> "str", s |-> s]

PyInt(n) == [type |-> "int", n |-> n]

Truthy(v) ==
    CASE v.type = "NoneType" -> FALSE
      [] v.type = "str"      -> v.s # ""
      [] v.type = "int"      -> v.n # 0
      [] OTHER               -> TRUE

----------------------------------------------------------------------------
(* Characters and strings.                                                 *)

CharAt(s, i) == SubSeq(s, i, i)

Digits == {"0", "1", "2", "3", "4", "5", "6", "7", "8", "9"}

Whitespace == {" ", "\t", "\n", "\r"}

\* s[p:p+len(lit)] == lit, with p counted from 1
StartsWithAt(s, p, lit) ==
    /\ p + Len(lit) - 1 <= Len(s)
    /\ SubSeq(s, p, p + Len(lit) - 1) = lit

EndsWith(s, suffix) ==
    /\ Len(suffix) <= Len(s)
    /\ SubSeq(s, Len(s) - Len(suffix) + 1, Len(s)) = suffix

Contains(s, sub) ==
    \E i \in 1..(Len(s) - Len(sub) + 1) : StartsWithAt(s, i, sub)

RECURSIVE LStrip(_)
LStrip(s) ==
    IF Len(s) > 0 /\ CharAt(s, 1) \in Whitespace
    THEN LStrip(SubSeq(s, 2, Len(s)))
    ELSE s

RECURSIVE RStrip(_)
RStrip(s) ==
    IF Len(s) > 0 /\ CharAt(s, Len(s)) \in Whitespace
    THEN RStrip(SubSeq(s, 1, Len(s) - 1))
    ELSE s

\* str.strip()
Strip(s) == RStrip(LStrip(s))

DigitVal(c) ==
    CASE c = "0" -> 0 [] c = "1" -> 1 [] c = "2" -> 2 [] c = "3" -> 3
      [] c = "4" -> 4 [] c = "5" -> 5 [] c = "6" -> 6 [] c = "7" -> 7
      [] c = "8" -> 8 [] c = "9" -> 9

DigitChar(d) ==
    CASE d = 0 -> "0" [] d = 1 -> "1" [] d = 2 -> "2" [] d = 3 -> "3"
      [] d = 4 -> "4" [] d = 5 -> "5" [] d = 6 -> "6" [] d = 7 -> "7"
      [] d = 8 -> "8" [] d = 9 -> "9"

\* int(s) for a string of decimal digits
RECURSIVE ParseInt(_)
ParseInt(s) ==
    IF Len(s) = 0 THEN 0
    ELSE 10 * ParseInt(SubSeq(s, 1, Len(s) - 1)) + DigitVal(CharAt(s, Len(s)))

\* str(n) for a natural number
RECURSIVE IntToStr(_)
IntToStr(n) ==
    IF n < 10 THEN DigitChar(n)
    ELSE IntToStr(n \div 10) \o DigitChar(n % 10)

----------------------------------------------------------------------------
(* The regular expressions of query_patterns.  A pattern is a sequence of  *)
(* items, matched by backtracking in the priority order of Python's re:    *)
(*   lit   a literal text                                                  *)
(*   opt   an optional literal, x? or (?:x)?; greedy: tried present first  *)
(*   alt   (?:a|b|...) or, with cap, (a|b|...); alternatives in order      *)
(*   lazy  (.+?)  one or more characters other than newline, shortest      *)
(*         first; a capturing group                                        *)
(*   d4    (\d{4})  four digits; a capturing group                         *)
(*   end   (?:\?|$)  a question mark, else the end of the text             *)

Lit(s) == [t |-> "lit", s |-> s, opts |-> <<>>, cap |-> FALSE]

Opt(s) == [t |-> "opt", s |-> s, opts |-> <<>>, cap |-> FALSE]

Alt(opts) == [t |-> "alt", s |-> "", opts |-> opts, cap |-> FALSE]

CapAlt(opts) == [t |-> "alt", s |-> "", opts |-> opts, cap |-> TRUE]

Lazy == [t |-> "lazy", s |-> "", opts |-> <<>>, cap |-> TRUE]

D4 == [t |-> "d4", s |-> "", opts |-> <<>>, cap |-> TRUE]

End == [t |-> "end", s |-> "", opts |-> <<>>, cap |-> FALSE]

NoMatch == [ok |-> FALSE, groups |-> <<>>]

RECURSIVE MatchFrom(_, _, _, _, _)
RECURSIVE AltFrom(_, _, _, _, _, _)
RECURSIVE LazyFrom(_, _, _, _, _, _)

\* match items[k..] against s from position p; groups are the captures so far
MatchFrom(items, k, s, p, groups) ==
    IF k > Len(items) THEN [ok |-> TRUE, groups |-> groups]
    ELSE LET it == items[k] IN
      CASE it.t = "lit" ->
             IF StartsWithAt(s, p, it.s)
             THEN MatchFrom(items, k + 1, s, p + Len(it.s), groups)
             ELSE NoMatch
        [] it.t = "opt" ->
             LET present == IF StartsWithAt(s, p, it.s)
                            THEN MatchFrom(items, k + 1, s, p + Len(it.s), groups)
                            ELSE NoMatch
             IN  IF present.ok THEN present
                 ELSE MatchFrom(items, k + 1, s, p, groups)
        [] it.t = "alt" -> AltFrom(items, k, s, p, groups, 1)
        [] it.t = "lazy" -> LazyFrom(items, k, s, p, groups, 1)
        [] it.t = "d4" ->
             IF /\ p + 3 <= Len(s)
                /\ \A i \in p..(p + 3) : CharAt(s, i) \in Digits
             THEN MatchFrom(items, k + 1, s, p + 4,
                            Append(groups, SubSeq(s, p, p + 3)))
             ELSE NoMatch
        [] it.t = "end" ->
             LET qmark == IF StartsWithAt(s, p, "?")
                          THEN MatchFrom(items, k + 1, s, p + 1, groups)
                          ELSE NoMatch
                 \* $ matches at the end and before a final newline
                 atEnd == \/ p = Len(s) + 1
                          \/ p = Len(s) /\ CharAt(s, p) = "\n"
             IN  IF qmark.ok THEN qmark
                 ELSE IF atEnd THEN MatchFrom(items, k + 1, s, p, groups)
                 ELSE NoMatch

\* the alternatives of items[k], from the j-th on
AltFrom(items, k, s, p, groups, j) ==
    IF j > Len(items[k].opts) THEN NoMatch
    ELSE LET o == items[k].opts[j]
             r == IF StartsWithAt(s, p, o)
                  THEN MatchFrom(items, k + 1, s, p + Len(o),
                                 IF items[k].cap THEN Append(groups, o)
                                                 ELSE groups)
                  ELSE NoMatch
         IN  IF r.ok THEN r ELSE AltFrom(items, k, s, p, groups, j + 1)

\* the lazy group items[k] taking n characters, then n + 1, ...
LazyFrom(items, k, s, p, groups, n) ==
    IF p + n - 1 > Len(s) \/ CharAt(s, p + n - 1) = "\n" THEN NoMatch
    ELSE LET r == MatchFrom(items, k + 1, s, p + n,
                            Append(groups, SubSeq(s, p, p + n - 1)))
         IN  IF r.ok THEN r ELSE LazyFrom(items, k, s, p, groups, n + 1)

\* re.search(pattern, s): the match at the leftmost position that has one
RECURSIVE SearchFrom(_, _, _)
SearchFrom(items, s, p) ==
    IF p > Len(s) + 1 THEN NoMatch
    ELSE LET r == MatchFrom(items, 1, s, p, <<>>)
         IN  IF r.ok THEN r ELSE SearchFrom(items, s, p + 1)

re_search(items, s) == SearchFrom(items, s, 1)

----------------------------------------------------------------------------
(* The outcome of a call: a returned value or a raised exception.          *)

Returned(v) == [raised |-> FALSE, value |-> v, error |-> ""]

Raised(e) == [raised |-> TRUE, value |-> PyNone, error |-> e]

\* the text an f-string puts for {v}
Format(v) ==
    CASE v.type = "str"      -> v.s
      [] v.type = "int"      -> IntToStr(v.n)
      [] v.type = "NoneType" -> "None"

\* the lines of a triple-quoted template, indented as in the source
I8 == "        "

I12 == "            "

L8(text) == I8 \o text \o "\n"

L12(text) == I12 \o text \o "\n"

----------------------------------------------------------------------------
(* The temporal helpers.                                                   *)

YearPattern == <<D4>>

\* int(year_match.group()) if year_match else None
YearOfMatch(year_match) ==
    IF year_match.ok THEN PyInt(ParseInt(year_match.groups[1])) ELSE PyNone

\* returns the year alone: an int, or None when the context has no
\* run of four digits
_parse_temporal_context(context) ==
    YearOfMatch(re_search(YearPattern, context))

_build_temporal_filter(year, temporal_relation) ==
    IF temporal_relation = PyStr("before") THEN "r.year < " \o Format(year)
    ELSE IF temporal_relation = PyStr("after") THEN "r.year > " \o Format(year)
    ELSE "r.year = " \o Format(year)

\* a, b = v: only a value of two items unpacks; an int or None raises
\* TypeError
CanUnpack2(v) == v.type = "tuple" /\ Len(v.items) = 2

----------------------------------------------------------------------------
(* The template handlers.  Each takes the captured groups (text) and gives *)
(* the outcome of the call: the query text, or the exception raised.       *)

\* RaceEngineerText with the same template on both branches
RaceEngineerTextNoDefault(driver_name, year) ==
    Returned(PyStr("\n"
       \o L12("MATCH (driver:Entity {name: '" \o driver_name
              \o "'})-[r:RELATION]->(engineer:Entity)")
       \o L12("WHERE r.type CONTAINS 'engineer' AND r.year = "
              \o Format(year))
       \o L12("RETURN engineer.name as answer, r.year as year")
       \o I12))

\* the two templates of _race_engineer_query, chosen by: if year
RaceEngineerText(driver_name, year) ==
    IF Truthy(year)
    THEN Returned(PyStr("\n"
           \o L12("MATCH (driver:Entity {name: '" \o driver_name
                  \o "'})-[r:RELATION]->(engineer:Entity)")
           \o L12("WHERE r.type CONTAINS 'engineer' AND r.year = "
                  \o Format(year))
           \o L12("RETURN engineer.name as answer, r.year as year")
           \o I12))
    ELSE Returned(PyStr("\n"
           \o L12("MATCH (driver:Entity {name: '" \o driver_name
                  \o "'})-[r:RELATION]->(engineer:Entity)")
           \o L12("WHERE r.type CONTAINS 'engineer'")
           \o L12("RETURN engineer.name as answer, r.year as year")
           \o L12("ORDER BY r.year DESC")
           \o L12("LIMIT 1")
           \o I12))

_race_engineer_query(driver_name, year_context) ==
    RaceEngineerText(driver_name,
                     YearOfMatch(re_search(YearPattern, year_context)))

_race_engineer_reverse_relative_query(engineer_name, temporal_relation, year) ==
    IF temporal_relation \in {"before", "after"}
    THEN LET temporal_filter ==
                 _build_temporal_filter(PyInt(ParseInt(year)),
                                        PyStr(temporal_relation))
             order_clause == IF temporal_relation = "before"
                             THEN "ORDER BY r.year DESC"
                             ELSE "ORDER BY r.year ASC"
         IN  Returned(PyStr("\n"
               \o L12("MATCH (engineer:Entity {name: '" \o engineer_name
                      \o "'})-[r:RELATION]->(driver:Entity)")
               \o L12("WHERE r.type CONTAINS 'engineer' AND " \o temporal_filter)
               \o L12("RETURN driver.name as answer, r.year as year")
               \o L12(order_clause)
               \o L12("LIMIT 5")
               \o I12))
    ELSE Returned(PyStr("\n"
               \o L12("MATCH (engineer:Entity {name: '" \o engineer_name
                      \o "'})-[r:RELATION]->(driver:Entity)")
               \o L12("WHERE r.type CONTAINS 'engineer' AND r.year = " \o year)
               \o L12("RETURN driver.name as answer, r.year as year")
               \o I12))

_team_query(driver_name, year) ==
    Returned(PyStr("\n"
       \o L8("MATCH (driver:Entity {name: '" \o driver_name
             \o "'})-[r:RELATION]->(team:Entity)")
       \o L8("WHERE (r.type CONTAINS 'drove' OR r.type CONTAINS 'team' OR r.type CONTAINS 'race')")
       \o L8("AND r.year = " \o year)
       \o L8("RETURN team.name as answer, r.year as year")
       \o I8))

\* the two templates of _team_relative_query, chosen by:
\* if year and temporal_relation
TeamRelativeText(driver_name, year, temporal_relation) ==
    IF Truthy(year) /\ Truthy(temporal_relation)
    THEN LET temporal_filter == _build_temporal_filter(year, temporal_relation)
             order_clause == IF temporal_relation = PyStr("before")
                             THEN "ORDER BY r.year DESC"
                             ELSE "ORDER BY r.year ASC"
         IN  Returned(PyStr("\n"
               \o L12("MATCH (driver:Entity {name: '" \o driver_name
                      \o "'})-[r:RELATION]->(team:Entity)")
               \o L12("WHERE (r.type CONTAINS 'drove' OR r.type CONTAINS 'team' OR r.type CONTAINS 'race')")
               \o L12("AND " \o temporal_filter)
               \o L12("RETURN team.name as answer, r.year as year")
               \o L12(order_clause)
               \o L12("LIMIT 5")
               \o I12))
    ELSE Returned(PyStr("\n"
               \o L12("MATCH (driver:Entity {name: '" \o driver_name
                      \o "'})-[r:RELATION]->(team:Entity)")
               \o L12("WHERE (r.type CONTAINS 'drove' OR r.type CONTAINS 'team' OR r.type CONTAINS 'race')")
               \o L12("RETURN team.name as answer, r.year as year")
               \o L12("ORDER BY r.year DESC")
               \o L12("LIMIT 1")
               \o I12))

\* year, temporal_relation = self._parse_temporal_context(year_context)
TeamRelativeTextUnpacked(driver_name, parsed) ==
    IF ~CanUnpack2(parsed) THEN Raised("TypeError")
    ELSE TeamRelativeText(driver_name, parsed.items[1], parsed.items[2])

_team_relative_query(driver_name, year_context) ==
    TeamRelativeTextUnpacked(driver_name, _parse_temporal_context(year_context))

_champion_query(year) ==
    Returned(PyStr("\n"
       \o L8("MATCH (driver:Entity)-[r:RELATION]->(championship:Entity)")
       \o L8("WHERE (r.type CONTAINS 'champion' OR r.type CONTAINS 'won')")
       \o L8("AND r.year = " \o year)
       \o L8("RETURN driver.name as answer, r.year as year")
       \o I8))

\* the two templates of _champion_relative_query, chosen by:
\* if year and temporal_relation
ChampionRelativeText(year, temporal_relation) ==
    IF Truthy(year) /\ Truthy(temporal_relation)
    THEN LET temporal_filter == _build_temporal_filter(year, temporal_relation)
             order_clause == IF temporal_relation = PyStr("before")
                             THEN "ORDER BY r.year DESC"
                             ELSE "ORDER BY r.year ASC"
         IN  Returned(PyStr("\n"
               \o L12("MATCH (driver:Entity)-[r:RELATION]->(championship:Entity)")
               \o L12("WHERE (r.type CONTAINS 'champion' OR r.type CONTAINS 'won')")
               \o L12("AND " \o temporal_filter)
               \o L12("RETURN driver.name as answer, r.year as year")
               \o L12(order_clause)
               \o L12("LIMIT 5")
               \o I12))
    ELSE Returned(PyStr("\n"
               \o L12("MATCH (driver:Entity)-[r:RELATION]->(championship:Entity)")
               \o L12("WHERE (r.type CONTAINS 'champion' OR r.type CONTAINS 'won')")
               \o L12("RETURN driver.name as answer, r.year as year")
               \o L12("ORDER BY r.year DESC")
               \o L12("LIMIT 1")
               \o I12))

\* year, temporal_relation = self._parse_temporal_context(year_context)
ChampionRelativeTextUnpacked(parsed) ==
    IF ~CanUnpack2(parsed) THEN Raised("TypeError")
    ELSE ChampionRelativeText(parsed.items[1], parsed.items[2])

_champion_relative_query(year_context) ==
    ChampionRelativeTextUnpacked(_parse_temporal_context(year_context))

\* _dominant_team_query without its ORDER BY and LIMIT lines
_dominant_team_query_unbounded(year) ==
    Returned(PyStr("\n"
       \o L8("MATCH (team:Entity)-[r:RELATION]->(achievement:Entity)")
       \o L8("WHERE r.year = " \o year)
       \o L8("AND (r.type CONTAINS 'won' OR r.type CONTAINS 'champion' OR r.type CONTAINS 'dominated')")
       \o L8("RETURN team.name as answer, count(r) as dominance_score")
       \o I8))

_dominant_team_query(year) ==
    Returned(PyStr("\n"
       \o L8("MATCH (team:Entity)-[r:RELATION]->(achievement:Entity)")
       \o L8("WHERE r.year = " \o year)
       \o L8("AND (r.type CONTAINS 'won' OR r.type CONTAINS 'champion' OR r.type CONTAINS 'dominated')")
       \o L8("RETURN team.name as answer, count(r) as dominance_score")
       \o L8("ORDER BY dominance_score DESC")
       \o L8("LIMIT 1")
       \o I8))

\* the two templates of _dominant_team_relative_query, chosen by:
\* if year and temporal_relation
DominantTeamRelativeText(year, temporal_relation) ==
    IF Truthy(year) /\ Truthy(temporal_relation)
    THEN LET temporal_filter == _build_temporal_filter(year, temporal_relation)
             order_clause == IF temporal_relation = PyStr("before")
                             THEN "ORDER BY dominance_score DESC, r.year DESC"
                             ELSE "ORDER BY dominance_score DESC, r.year ASC"
         IN  Returned(PyStr("\n"
               \o L12("MATCH (team:Entity)-[r:RELATION]->(achievement:Entity)")
               \o L12("WHERE " \o temporal_filter)
               \o L12("AND (r.type CONTAINS 'won' OR r.type CONTAINS 'champion' OR r.type CONTAINS 'dominated')")
               \o L12("RETURN team.name as answer, count(r) as dominance_score, r.year as year")
               \o L12(order_clause)
               \o L12("LIMIT 5")
               \o I12))
    ELSE Returned(PyStr("\n"
               \o L12("MATCH (team:Entity)-[r:RELATION]->(achievement:Entity)")
               \o L12("WHERE (r.type CONTAINS 'won' OR r.type CONTAINS 'champion' OR r.type CONTAINS 'dominated')")
               \o L12("RETURN team.name as answer, count(r) as dominance_score")
               \o L12("ORDER BY dominance_score DESC")
               \o L12("LIMIT 1")
               \o I12))

\* year, temporal_relation = self._parse_temporal_context(year_context)
DominantTeamRelativeTextUnpacked(parsed) ==
    IF ~CanUnpack2(parsed) THEN Raised("TypeError")
    ELSE DominantTeamRelativeText(parsed.items[1], parsed.items[2])

_dominant_team_relative_query(year_context) ==
    DominantTeamRelativeTextUnpacked(_parse_temporal_context(year_context))

----------------------------------------------------------------------------
(* query_patterns: the eight rules, in registration order.                 *)

query_patterns == <<
    \* who was (.+?)'s? race engineer (?:when|in|for|during) (.+?)(?:\?|$)
    <<Lit("who was "), Lazy, Lit("'"), Opt("s"), Lit(" race engineer "),
      Alt(<<"when", "in", "for", "during">>), Lit(" "), Lazy, End>>,
    \* who was (.+?) race engineer for (before|after|during) (\d{4})(?:\?|$)
    <<Lit("who was "), Lazy, Lit(" race engineer for "),
      CapAlt(<<"before", "after", "during">>), Lit(" "), D4, End>>,
    \* what team did (.+?) (?:drive for|race for) (?:in|during) (\d{4})(?:\?|$)
    <<Lit("what team did "), Lazy, Lit(" "), Alt(<<"drive for", "race for">>),
      Lit(" "), Alt(<<"in", "during">>), Lit(" "), D4, End>>,
    \* who won (?:the )?championship (?:in|during) (\d{4})(?:\?|$)
    <<Lit("who won "), Opt("the "), Lit("championship "),
      Alt(<<"in", "during">>), Lit(" "), D4, End>>,
    \* which team dominated (?:the )?(\d{4}) season(?:\?|$)
    <<Lit("which team dominated "), Opt("the "), D4, Lit(" season"), End>>,
    \* what team did (.+?) (?:drive for|race for) (?:before|after) (\d{4})(?:\?|$)
    <<Lit("what team did "), Lazy, Lit(" "), Alt(<<"drive for", "race for">>),
      Lit(" "), Alt(<<"before", "after">>), Lit(" "), D4, End>>,
    \* who won (?:the )?championship (?:before|after) (\d{4})(?:\?|$)
    <<Lit("who won "), Opt("the "), Lit("championship "),
      Alt(<<"before", "after">>), Lit(" "), D4, End>>,
    \* which team dominated (?:the )?season (?:before|after) (\d{4})(?:\?|$)
    <<Lit("which team dominated "), Opt("the "), Lit("season "),
      Alt(<<"before", "after">>), Lit(" "), D4, End>> >>

NumRules == Len(query_patterns)

\* pattern_info['template'](*groups): the handler of rule i applied to the
\* groups; a call with the wrong number of arguments raises TypeError
template(i, groups) ==
    CASE i = 1 -> IF Len(groups) = 2
                  THEN _race_engineer_query(groups[1], groups[2])
                  ELSE Raised("TypeError")
      [] i = 2 -> IF Len(groups) = 3
                  THEN _race_engineer_reverse_relative_query(groups[1], groups[2], groups[3])
                  ELSE Raised("TypeError")
      [] i = 3 -> IF Len(groups) = 2 THEN _team_query(groups[1], groups[2])
                  ELSE Raised("TypeError")
      [] i = 4 -> IF Len(groups) = 1 THEN _champion_query(groups[1])
                  ELSE Raised("TypeError")
      [] i = 5 -> IF Len(groups) = 1 THEN _dominant_team_query(groups[1])
                  ELSE Raised("TypeError")
      [] i = 6 -> IF Len(groups) = 2 THEN _team_relative_query(groups[1], groups[2])
                  ELSE Raised("TypeError")
      [] i = 7 -> IF Len(groups) = 1 THEN _champion_relative_query(groups[1])
                  ELSE Raised("TypeError")
      [] i = 8 -> IF Len(groups) = 1 THEN _dominant_team_relative_query(groups[1])
                  ELSE Raised("TypeError")

\* The scan of rule_based_query from rule i on.  tried lists the rules
\* whose handler was called.  A handler that raises is skipped (continue).
RECURSIVE ScanRules(_, _, _)

\* OnOutcome with the scan given up at the first handler that raises
OnOutcomeStop(question, i, tried, match, outcome) ==
    IF outcome.raised
    THEN [value |-> PyNone, tried |-> Append(tried, i), fired |-> 0,
          groups |-> <<>>]
    ELSE [value |-> outcome.value, tried |-> Append(tried, i),
          fired |-> i, groups |-> match.groups]

\* try: cypher = template(*groups); return cypher / except: continue
OnOutcome(question, i, tried, match, outcome) ==
    IF outcome.raised
    THEN ScanRules(question, i + 1, Append(tried, i))
    ELSE [value |-> outcome.value, tried |-> Append(tried, i),
          fired |-> i, groups |-> match.groups]

\* if match:
OnMatch(question, i, tried, match) ==
    IF match.ok
    THEN OnOutcome(question, i, tried, match, template(i, match.groups))
    ELSE ScanRules(question, i + 1, tried)

ScanRules(question, i, tried) ==
    IF i > NumRules
    THEN [value |-> PyNone, tried |-> tried, fired |-> 0, groups |-> <<>>]
    ELSE OnMatch(question, i, tried,
                 re_search(query_patterns[i], Strip(question)))

\* the scan in the reverse order: the last rule that matches wins
RECURSIVE ScanRulesDown(_, _, _)
ScanRulesDown(question, i, tried) ==
    IF i < 1
    THEN [value |-> PyNone, tried |-> tried, fired |-> 0, groups |-> <<>>]
    ELSE IF re_search(query_patterns[i], Strip(question)).ok
    THEN IF template(i, re_search(query_patterns[i], Strip(question)).groups).raised
         THEN ScanRulesDown(question, i - 1, Append(tried, i))
         ELSE [value |-> template(i, re_search(query_patterns[i],
                                               Strip(question)).groups).value,
               tried |-> Append(tried, i), fired |-> i,
               groups |-> re_search(query_patterns[i], Strip(question)).groups]
    ELSE ScanRulesDown(question, i - 1, tried)

rule_based_query_reversed(question) == ScanRulesDown(question, NumRules, <<>>)

rule_based_query(question) == ScanRules(question, 1, <<>>)

----------------------------------------------------------------------------
(* Lists, dicts and the text helpers of the fallback and the formatter.    *)

PyList(items) == [type |-> "list", items |-> items]

\* A dict is the sequence of its <<key, value>> items in insertion order.
Has(d, key) == \E i \in 1..Len(d) : d[i][1] = key

\* d.get(key, default)
Get(d, key, default) ==
    IF Has(d, key)
    THEN d[CHOOSE i \in 1..Len(d) : d[i][1] = key][2]
    ELSE default

\* dict(record): the fields of the record in order; a repeated key keeps
\* its first position and takes the last value
RECURSIVE DictOf(_)
DictOf(record) ==
    IF Len(record) = 0 THEN <<>>
    ELSE LET init == DictOf(SubSeq(record, 1, Len(record) - 1))
             item == record[Len(record)]
         IN  IF Has(init, item[1])
             THEN [i \in 1..Len(init) |->
                     IF init[i][1] = item[1] THEN item ELSE init[i]]
             ELSE Append(init, item)

\* the members of a set of numbers in increasing order
RECURSIVE Ascending(_)
Ascending(S) ==
    IF S = {} THEN <<>>
    ELSE <<CHOOSE i \in S : \A j \in S : i <= j>>
         \o Ascending(S \ {CHOOSE i \in S : \A j \in S : i <= j})

\* the pieces of s between the separators at the positions pos
PiecesBetween(s, pos) ==
    [k \in 1..(Len(pos) + 1) |->
       SubSeq(s, IF k = 1 THEN 1 ELSE pos[k - 1] + 1,
                 IF k = Len(pos) + 1 THEN Len(s) ELSE pos[k] - 1)]

\* s.split('\n')
SplitLines(s) ==
    PiecesBetween(s, Ascending({i \in 1..Len(s) : CharAt(s, i) = "\n"}))

\* sep.join(parts)
RECURSIVE Join(_, _)
Join(parts, sep) ==
    IF Len(parts) = 0 THEN ""
    ELSE IF Len(parts) = 1 THEN parts[1]
    ELSE parts[1] \o sep \o Join(Tail(parts), sep)

----------------------------------------------------------------------------
(* The generative fallback.  env is what the collaborators do during the   *)
(* call: env.schema is "ok" or "error" (the two store reads of             *)
(* _get_schema_info), env.model is the completion: kind "error" (the call  *)
(* raises) or kind "content" with the message content, a str or None.      *)

\* the three backquotes of a code fence (a backquote in a string literal
\* must be closed by a quote, which SubSeq leaves out)
Fence == SubSeq("```'", 1, 3)

\* the clean-up of the completion text
StripFence(content) ==
    LET cypher == Strip(content) IN
    IF StartsWithAt(cypher, 1, Fence)
    THEN LET lines == SplitLines(cypher)
         IN  Join(SubSeq(lines, 2, Len(lines) - 1), "\n")
    ELSE cypher

\* llm_based_query with the completion call outside the try block
llm_based_query_unguarded(question, openai_client, env) ==
    IF ~openai_client THEN Returned(PyNone)
    ELSE IF env.schema = "error" THEN Raised("Neo4jError")
    ELSE IF env.model.kind = "error" THEN Raised("OpenAIError")
    ELSE IF env.model.content.type # "str" THEN Returned(PyNone)
    ELSE Returned(PyStr(StripFence(env.model.content.s)))

llm_based_query(question, openai_client, env) ==
    IF ~openai_client THEN Returned(PyNone)
    \* _get_schema_info() is called outside the try block
    ELSE IF env.schema = "error" THEN Raised("Neo4jError")
    ELSE IF env.model.kind = "error" THEN Returned(PyNone)
    \* None.strip() raises AttributeError inside the try block
    ELSE IF env.model.content.type # "str" THEN Returned(PyNone)
    ELSE Returned(PyStr(StripFence(env.model.content.s)))

----------------------------------------------------------------------------
(* The executor.  store is what the graph store does with the query:       *)
(* store.fail names the step that raises ("session", "run", "fetch",       *)
(* "close") or is "none", and then store.rows are the records it yields.   *)

\* execute_query without the except clause
execute_query_propagating(cypher, store) ==
    IF store.fail # "none" THEN Raised("Neo4jError")
    ELSE Returned(PyList([i \in 1..Len(store.rows) |-> DictOf(store.rows[i])]))

execute_query(cypher, store) ==
    IF store.fail # "none" THEN Returned(PyList(<<>>))
    ELSE Returned(PyList([i \in 1..Len(store.rows) |-> DictOf(store.rows[i])]))

----------------------------------------------------------------------------
(* The answer formatter.                                                   *)

ApologyNoAnswer == "I couldn't find an answer to that question in the knowledge graph."

ApologyNotUnderstood == "Sorry, I couldn't understand that question."

\* FormatOne putting the year as the list branch does
FormatOneAsListed(result) ==
    IF Has(result, "answer")
    THEN LET answer == Get(result, "answer", PyNone)
             year == Get(result, "year", PyStr(""))
         IN  IF Truthy(year)
             THEN Returned(Format(answer) \o " (" \o Format(year) \o ")")
             ELSE Returned(Format(answer))
    ELSE IF Len(result) = 0 THEN Raised("IndexError")
    ELSE Returned(Format(result[1][2]))

\* the rendering of the single row
FormatOne(result) ==
    IF Has(result, "answer")
    THEN LET answer == Get(result, "answer", PyNone)
             year == Get(result, "year", PyStr(""))
         IN  IF Truthy(year)
             THEN Returned(Format(answer) \o " (in " \o Format(year) \o ")")
             ELSE Returned(Format(answer))
    ELSE IF Len(result) = 0 THEN Raised("IndexError")
    ELSE Returned(Format(result[1][2]))

\* the rendering of a row among several
FormatEach(result) ==
    IF Has(result, "answer")
    THEN LET answer == Get(result, "answer", PyNone)
             year == Get(result, "year", PyStr(""))
         IN  IF Truthy(year)
             THEN Returned(Format(answer) \o " (" \o Format(year) \o ")")
             ELSE Returned(Format(answer))
    ELSE IF Len(result) = 0 THEN Raised("IndexError")
    ELSE Returned(Format(result[1][2]))

TopRows == 5

\* _format_answer listing every row instead of the first TopRows
_format_answer_all_rows(results, question) ==
    IF Len(results) = 0 THEN Returned(PyStr(ApologyNoAnswer))
    ELSE IF Len(results) = 1
    THEN LET one == FormatOne(results[1])
         IN  IF one.raised THEN Raised(one.error)
             ELSE Returned(PyStr(one.value))
    ELSE LET each == [i \in 1..Len(results) |-> FormatEach(results[i])]
         IN  IF \E i \in 1..Len(results) : each[i].raised
             THEN Raised("IndexError")
             ELSE Returned(PyStr(Join([i \in 1..Len(results) |-> each[i].value], "; ")))

\* _format_answer without the test of empty results
_format_answer_no_guard(results, question) ==
    IF Len(results) = 1
    THEN LET one == FormatOne(results[1])
         IN  IF one.raised THEN Raised(one.error)
             ELSE Returned(PyStr(one.value))
    ELSE LET top == SubSeq(results, 1, IF Len(results) < TopRows
                                       THEN Len(results) ELSE TopRows)
             each == [i \in 1..Len(top) |-> FormatEach(top[i])]
         IN  IF \E i \in 1..Len(top) : each[i].raised
             THEN Raised("IndexError")
             ELSE Returned(PyStr(Join([i \in 1..Len(top) |-> each[i].value], "; ")))

_format_answer(results, question) ==
    IF Len(results) = 0 THEN Returned(PyStr(ApologyNoAnswer))
    ELSE IF Len(results) = 1
    THEN LET one == FormatOne(results[1])
         IN  IF one.raised THEN Raised(one.error)
             ELSE Returned(PyStr(one.value))
    ELSE LET top == SubSeq(results, 1, IF Len(results) < TopRows
                                       THEN Len(results) ELSE TopRows)
             each == [i \in 1..Len(top) |-> FormatEach(top[i])]
         IN  IF \E i \in 1..Len(top) : each[i].raised
             THEN Raised("IndexError")
             ELSE Returned(PyStr(Join([i \in 1..Len(top) |-> each[i].value], "; ")))

----------------------------------------------------------------------------
(* The inputs: the questions asked, what the model answers and what the    *)
(* store yields.                                                           *)

Questions == {
    "who was lewis hamilton's race engineer in 2017?",
    "who was lewis hamilton' race engineer for mercedes",
    "who was a's race engineer for before 2017?",
    "who was x's race engineer in 0000?",
    "who was x's race engineer during the 2017 or 2018 season?",
    "who was peter bonnington race engineer for before 2024?",
    "who was peter bonnington race engineer for after 2013",
    "who was peter bonnington race engineer for during 2016?",
    "what team did max verstappen drive for in 2020?",
    "what team did max race for during 2016",
    "who won the championship in 2017?",
    "who won championship during 2008",
    "who won the championship in 3000?",
    "which team dominated the 2020 season?",
    "which team dominated 2014 season",
    "what team did max verstappen drive for after 2018?",
    "what team did max race for before 2016",
    "who won the championship before 2020?",
    "who won championship after 3000",
    "which team dominated the season after 2015?",
    "which team dominated season before 2010",
    "Who won the championship in 2017?",
    "who won the Championship in 2017?",
    "What team did Max Verstappen drive for after 2018?",
    "what team did Max Verstappen drive for after 2018?",
    "Who was Lewis Hamilton's race engineer in 2017?",
    "who was Lewis Hamilton's race engineer in 2017?",
    "Who was Peter Bonnington race engineer for before 2024?",
    "WHICH TEAM DOMINATED THE 2020 SEASON?",
    "  who won the championship in 2017?\n",
    "tell me, who won the championship in 2017? thanks",
    "what team did x drive for after 2018? who won championship after 2019?",
    "who won championship after 2019? who won championship in 2017?",
    "what team did a drive for in 2017? what team did b drive for after 2018?",
    "who won the championship in 20175?",
    "how many races are there?",
    "" }

NoModel == [kind |-> "error", content |-> PyNone]

ModelTexts == {
    "MATCH (n:Entity) RETURN n.name as answer LIMIT 1",
    "  MATCH (n:Entity) RETURN n.name as answer \n",
    Fence \o "cypher\nMATCH (n:Entity) RETURN n.name as answer\n" \o Fence,
    Fence \o "\nMATCH (a:Entity)-[r:RELATION]->(b:Entity)\nWHERE r.year = 2017\nRETURN b.name as answer\n" \o Fence,
    Fence \o "cypher\nMATCH (n:Entity) RETURN n.name as answer\n" \o Fence
        \o "\nThis returns the names.",
    Fence \o "MATCH (n:Entity) RETURN n.name as answer" \o Fence,
    Fence \o "cypher\nMATCH (n:Entity)\nRETURN n.name as answer",
    Fence \o "\n" \o Fence,
    Fence,
    "   ",
    "" }

ModelOutcomes ==
    {NoModel, [kind |-> "content", content |-> PyNone]}
    \cup {[kind |-> "content", content |-> PyStr(t)] : t \in ModelTexts}

\* what the collaborators can do during llm_based_query
FallbackEnvs ==
    {[schema |-> "error", model |-> NoModel]}
    \cup {[schema |-> "ok", model |-> m] : m \in ModelOutcomes}

NoEnv == [schema |-> "unused", model |-> NoModel]

Row1 == << <<"answer", PyStr("Peter Bonnington")>>, <<"year", PyInt(2017)>> >>

Row2 == << <<"answer", PyStr("Mercedes")>>, <<"dominance_score", PyInt(3)>> >>

Row3 == << <<"answer", PyStr("Red Bull Racing")>>, <<"year", PyNone>> >>

Row4 == << <<"name", PyStr("Lewis Hamilton")>>, <<"year", PyInt(2008)>> >>

Row5 == << <<"year", PyInt(0)>>, <<"answer", PyInt(44)>> >>

StoreRows == {
    <<>>,
    <<Row1>>, <<Row2>>, <<Row3>>, <<Row4>>, <<Row5>>,
    <<Row1, Row3>>,
    <<Row4, Row1, Row2>>,
    <<Row1, Row2, Row3, Row4, Row5, Row1>> }

StoreFailures == {"session", "run", "fetch", "close"}

StoreOutcomes ==
    {[fail |-> f, rows |-> <<>>] : f \in StoreFailures}
    \cup {[fail |-> "none", rows |-> rows] : rows \in StoreRows}

NoStore == [fail |-> "unused", rows |-> <<>>]

----------------------------------------------------------------------------
(* answer_question, step by step.  One question is answered: the state is *)
(* the arguments, the converter's client, the locals of answer_question    *)
(* and what the collaborators did.                                         *)

VARIABLES
    question,       \* the question asked
    use_llm,        \* the use_llm argument
    openai_client,  \* TRUE when the converter was built with an API key
    pc,             \* "start", "llm", "check", "format", "done", "raised"
    rule_result,    \* what rule_based_query returned, and how
    parsed,         \* the calls of _parse_temporal_context made by handlers
    cypher,         \* the local cypher
    approach,       \* the local approach
    env,            \* what the collaborators did during llm_based_query
    llm_calls,      \* the number of calls of llm_based_query
    store,          \* what the store did during execute_query
    exec_calls,     \* the number of calls of execute_query
    results,        \* the local results
    answer,         \* the dict returned
    raised_in       \* the call whose exception left answer_question

vars == <<question, use_llm, openai_client, pc, rule_result, parsed, cypher,
          approach, env, llm_calls, store, exec_calls, results, answer,
          raised_in>>

NoAnswer == [question |-> "", cypher |-> PyNone, results |-> <<>>,
             answer |-> "", approach |-> ""]

NoRuleResult == [value |-> PyNone, tried |-> <<>>, fired |-> 0, groups |-> <<>>]

\* the handlers of rules 6 to 8 resolve their last argument
RelativeContextRules == {6, 7, 8}

TemporalCall(context) ==
    [context |-> context, result |-> _parse_temporal_context(context)]

LastOf(groups) == groups[Len(groups)]

IsRelativeContextRule(i) == i \in RelativeContextRules

RelativeTried(tried) == SelectSeq(tried, IsRelativeContextRule)

TemporalCalls(q, tried) ==
    [k \in 1..Len(RelativeTried(tried)) |->
       TemporalCall(LastOf(re_search(query_patterns[RelativeTried(tried)[k]],
                                     Strip(q)).groups))]

\* NeedsFallback without the test of cypher
NeedsFallbackWhenever(c, llm) == llm

\* if not cypher and use_llm
NeedsFallback(c, llm) == ~Truthy(c) /\ llm

Init ==
    /\ question \in Questions
    /\ use_llm \in BOOLEAN
    /\ openai_client \in BOOLEAN
    /\ pc = "start"
    /\ rule_result = NoRuleResult
    /\ parsed = <<>>
    /\ cypher = PyNone
    /\ approach = ""
    /\ env = NoEnv
    /\ llm_calls = 0
    /\ store = NoStore
    /\ exec_calls = 0
    /\ results = <<>>
    /\ answer = NoAnswer
    /\ raised_in = ""

\* cypher = self.rule_based_query(question); approach = "rule-based"
RuleBased ==
    /\ pc = "start"
    /\ rule_result' = rule_based_query(question)
    /\ parsed' = TemporalCalls(question, rule_result'.tried)
    /\ cypher' = rule_result'.value
    /\ approach' = "rule-based"
    /\ pc' = IF NeedsFallback(cypher', use_llm) THEN "llm" ELSE "check"
    /\ UNCHANGED <<question, use_llm, openai_client, env, llm_calls, store,
                   exec_calls, results, answer, raised_in>>

\* the assignment of what llm_based_query returned, or its exception
LlmReturn(outcome) ==
    IF outcome.raised
    THEN /\ pc' = "raised"
         /\ raised_in' = "llm_based_query"
         /\ UNCHANGED <<cypher, approach>>
    ELSE /\ cypher' = outcome.value
         /\ approach' = "llm-based"
         /\ pc' = "check"
         /\ UNCHANGED raised_in

\* cypher = self.llm_based_query(question); approach = "llm-based"
LlmBased ==
    /\ pc = "llm"
    /\ \E e \in IF openai_client THEN FallbackEnvs ELSE {NoEnv} :
         /\ env' = e
         /\ LlmReturn(llm_based_query(question, openai_client, e))
    /\ llm_calls' = llm_calls + 1
    /\ UNCHANGED <<question, use_llm, openai_client, rule_result, parsed,
                   store, exec_calls, results, answer>>

\* ReturnNone returning the local cypher and approach as they are
ReturnNoneKeepingLocals ==
    /\ pc = "check"
    /\ ~Truthy(cypher)
    /\ answer' = [question |-> question, cypher |-> cypher, results |-> <<>>,
                  answer |-> ApologyNotUnderstood, approach |-> approach]
    /\ pc' = "done"
    /\ UNCHANGED <<question, use_llm, openai_client, rule_result, parsed,
                   cypher, approach, env, llm_calls, store, exec_calls,
                   results, raised_in>>

\* if not cypher: return {..., 'approach': 'none'}
ReturnNone ==
    /\ pc = "check"
    /\ ~Truthy(cypher)
    /\ answer' = [question |-> question, cypher |-> PyNone, results |-> <<>>,
                  answer |-> ApologyNotUnderstood, approach |-> "none"]
    /\ pc' = "done"
    /\ UNCHANGED <<question, use_llm, openai_client, rule_result, parsed,
                   cypher, approach, env, llm_calls, store, exec_calls,
                   results, raised_in>>

\* ExecuteReturn going back to run the query again when no row came
ExecuteReturnRetry(outcome) ==
    IF outcome.raised
    THEN /\ pc' = "raised"
         /\ raised_in' = "execute_query"
         /\ UNCHANGED results
    ELSE /\ results' = outcome.value.items
         /\ pc' = IF Len(outcome.value.items) = 0 THEN "check" ELSE "format"
         /\ UNCHANGED raised_in

\* the assignment of what execute_query returned, or its exception
ExecuteReturn(outcome) ==
    IF outcome.raised
    THEN /\ pc' = "raised"
         /\ raised_in' = "execute_query"
         /\ UNCHANGED results
    ELSE /\ results' = outcome.value.items
         /\ pc' = "format"
         /\ UNCHANGED raised_in

\* Execute guarded by `cypher is not None` instead of `not cypher`
ExecuteIfNotNone ==
    /\ pc = "check"
    /\ cypher # PyNone
    /\ \E o \in StoreOutcomes :
         /\ store' = o
         /\ ExecuteReturn(execute_query(cypher.s, o))
    /\ exec_calls' = exec_calls + 1
    /\ UNCHANGED <<question, use_llm, openai_client, rule_result, parsed,
                   cypher, approach, env, llm_calls, answer>>

\* results = self.execute_query(cypher)
Execute ==
    /\ pc = "check"
    /\ Truthy(cypher)
    /\ \E o \in StoreOutcomes :
         /\ store' = o
         /\ ExecuteReturn(execute_query(cypher.s, o))
    /\ exec_calls' = exec_calls + 1
    /\ UNCHANGED <<question, use_llm, openai_client, rule_result, parsed,
                   cypher, approach, env, llm_calls, answer>>

\* the dict returned with the formatted answer, or the formatter's exception
FormatReturn(outcome) ==
    IF outcome.raised
    THEN /\ pc' = "raised"
         /\ raised_in' = "_format_answer"
         /\ UNCHANGED answer
    ELSE /\ answer' = [question |-> question, cypher |-> cypher,
                       results |-> results, answer |-> outcome.value.s,
                       approach |-> approach]
         /\ pc' = "done"
         /\ UNCHANGED raised_in

\* answer = self._format_answer(results, question); return {...}
FormatAndReturn ==
    /\ pc = "format"
    /\ FormatReturn(_format_answer(results, question))
    /\ UNCHANGED <<question, use_llm, openai_client, rule_result, parsed,
                   cypher, approach, env, llm_calls, store, exec_calls,
                   results>>

Next ==
    \/ RuleBased
    \/ LlmBased
    \/ ReturnNone
    \/ Execute
    \/ FormatAndReturn

Spec == Init /\ [][Next]_vars

----------------------------------------------------------------------------
(* _format_answer on its own: the call _format_answer(results, question)   *)
(* of answer_question, made with every list of rows among FormatInputs.    *)
(* A row is any dict: no column, or columns of any name with a str, an int *)
(* or a None value.                                                        *)

Row6 == << <<"answer", PyStr("Max Verstappen")>>, <<"year", PyStr("")>> >>

Row7 == << <<"answer", PyNone>>, <<"year", PyStr("2021")>> >>

Row8 == << <<"rel_type", PyNone>> >>

EmptyRow == << >>

FormatRows == {Row1, Row2, Row3, Row4, Row5, Row6, Row7, Row8, EmptyRow}

\* every list of at most MaxListed rows is tried
MaxListed == 2

LongResults == {
    <<Row1, Row2, Row3, Row4, Row5>>,
    <<Row1, Row2, Row3, Row4, Row5, Row1>>,
    <<Row1, Row2, Row3, Row4, Row5, EmptyRow>>,
    <<Row1, Row2, Row3, Row4, EmptyRow, Row6>>,
    <<Row7, Row6, Row5, Row4, Row3, Row2, Row1>> }

FormatInputs ==
    UNION {[1..n -> FormatRows] : n \in 0..MaxListed} \cup LongResults

FormatQuery == PyStr("MATCH (n:Entity) RETURN n.name as answer LIMIT 1")

FormatInit ==
    /\ question = "how many races are there?"
    /\ use_llm = TRUE
    /\ openai_client = TRUE
    /\ pc = "format"
    /\ rule_result = NoRuleResult
    /\ parsed = <<>>
    /\ cypher = FormatQuery
    /\ approach = "llm-based"
    /\ env = [schema |-> "ok", model |-> [kind |-> "content", content |-> FormatQuery]]
    /\ llm_calls = 1
    /\ results \in FormatInputs
    /\ store = [fail |-> "none", rows |-> results]
    /\ exec_calls = 1
    /\ answer = NoAnswer
    /\ raised_in = ""

FormatSpec == FormatInit /\ [][FormatAndReturn]_vars

----------------------------------------------------------------------------
(* Several calls of answer_question on the one converter that              *)
(* get_converter hands to every request.  The converter's own state is     *)
(* openai_client (the rule table is the fixed query_patterns); every       *)
(* other variable is a local of answer_question or what the collaborators  *)
(* did during the call, and holds one value per call: question[c], pc[c],  *)
(* cypher[c], ...  A step is one stage of one call, and the calls          *)
(* interleave freely.                                                      *)

\* the number of calls in flight
NumCalls == 2

Calls == 1..NumCalls

ConcQuestions == {
    "who was lewis hamilton's race engineer in 2017?",
    "what team did max verstappen drive for after 2018?",
    "how many races are there?" }

ConcEnvs == {
    [schema |-> "error", model |-> NoModel],
    [schema |-> "ok", model |-> NoModel],
    [schema |-> "ok",
     model |-> [kind |-> "content",
                content |-> PyStr("MATCH (n:Entity) RETURN n.name as answer LIMIT 1")]] }

ConcStores == {
    [fail |-> "run", rows |-> <<>>],
    [fail |-> "none", rows |-> <<Row1>>],
    [fail |-> "none", rows |-> <<Row4, Row1, Row2>>] }

ConcInit ==
    /\ question \in [Calls -> ConcQuestions]
    /\ use_llm \in [Calls -> BOOLEAN]
    /\ openai_client \in BOOLEAN
    /\ pc = [c \in Calls |-> "start"]
    /\ rule_result = [c \in Calls |-> NoRuleResult]
    /\ parsed = [c \in Calls |-> <<>>]
    /\ cypher = [c \in Calls |-> PyNone]
    /\ approach = [c \in Calls |-> ""]
    /\ env = [c \in Calls |-> NoEnv]
    /\ llm_calls = [c \in Calls |-> 0]
    /\ store = [c \in Calls |-> NoStore]
    /\ exec_calls = [c \in Calls |-> 0]
    /\ results = [c \in Calls |-> <<>>]
    /\ answer = [c \in Calls |-> NoAnswer]
    /\ raised_in = [c \in Calls |-> ""]

\* cypher = self.rule_based_query(question); approach = "rule-based"
ConcRuleBased(c) ==
    /\ pc[c] = "start"
    /\ rule_result' = [rule_result EXCEPT ![c] = rule_based_query(question[c])]
    /\ parsed' = [parsed EXCEPT
                    ![c] = TemporalCalls(question[c], rule_result'[c].tried)]
    /\ cypher' = [cypher EXCEPT ![c] = rule_result'[c].value]
    /\ approach' = [approach EXCEPT ![c] = "rule-based"]
    /\ pc' = [pc EXCEPT ![c] = IF NeedsFallback(cypher'[c], use_llm[c])
                               THEN "llm" ELSE "check"]
    /\ UNCHANGED <<question, use_llm, openai_client, env, llm_calls, store,
                   exec_calls, results, answer, raised_in>>

\* the assignment of what llm_based_query returned, or its exception
ConcLlmReturn(c, outcome) ==
    IF outcome.raised
    THEN /\ pc' = [pc EXCEPT ![c] = "raised"]
         /\ raised_in' = [raised_in EXCEPT ![c] = "llm_based_query"]
         /\ UNCHANGED <<cypher, approach>>
    ELSE /\ cypher' = [cypher EXCEPT ![c] = outcome.value]
         /\ approach' = [approach EXCEPT ![c] = "llm-based"]
         /\ pc' = [pc EXCEPT ![c] = "check"]
         /\ UNCHANGED raised_in

\* cypher = self.llm_based_query(question); approach = "llm-based"
ConcLlmBased(c) ==
    /\ pc[c] = "llm"
    /\ \E e \in IF openai_client THEN ConcEnvs ELSE {NoEnv} :
         /\ env' = [env EXCEPT ![c] = e]
         /\ ConcLlmReturn(c, llm_based_query(question[c], openai_client, e))
    /\ llm_calls' = [llm_calls EXCEPT ![c] = @ + 1]
    /\ UNCHANGED <<question, use_llm, openai_client, rule_result, parsed,
                   store, exec_calls, results, answer>>

\* if not cypher: return {..., 'approach': 'none'}
ConcReturnNone(c) ==
    /\ pc[c] = "check"
    /\ ~Truthy(cypher[c])
    /\ answer' = [answer EXCEPT
                    ![c] = [question |-> question[c], cypher |-> PyNone,
                            results |-> <<>>, answer |-> ApologyNotUnderstood,
                            approach |-> "none"]]
    /\ pc' = [pc EXCEPT ![c] = "done"]
    /\ UNCHANGED <<question, use_llm, openai_client, rule_result, parsed,
                   cypher, approach, env, llm_calls, store, exec_calls,
                   results, raised_in>>

\* ConcExecuteReturn keeping the rows on the converter, for every call
ConcExecuteReturnShared(c, outcome) ==
    /\ results' = [d \in Calls |-> outcome.value.items]
    /\ pc' = [pc EXCEPT ![c] = "format"]
    /\ UNCHANGED raised_in

\* the assignment of what execute_query returned (it never raises)
ConcExecuteReturn(c, outcome) ==
    /\ results' = [results EXCEPT ![c] = outcome.value.items]
    /\ pc' = [pc EXCEPT ![c] = "format"]
    /\ UNCHANGED raised_in

\* results = self.execute_query(cypher)
ConcExecute(c) ==
    /\ pc[c] = "check"
    /\ Truthy(cypher[c])
    /\ \E o \in ConcStores :
         /\ store' = [store EXCEPT ![c] = o]
         /\ ConcExecuteReturn(c, execute_query(cypher[c].s, o))
    /\ exec_calls' = [exec_calls EXCEPT ![c] = @ + 1]
    /\ UNCHANGED <<question, use_llm, openai_client, rule_result, parsed,
                   cypher, approach, env, llm_calls, answer>>

\* the dict returned with the formatted answer, or the formatter's exception
ConcFormatReturn(c, outcome) ==
    IF outcome.raised
    THEN /\ pc' = [pc EXCEPT ![c] = "raised"]
         /\ raised_in' = [raised_in EXCEPT ![c] = "_format_answer"]
         /\ UNCHANGED answer
    ELSE /\ answer' = [answer EXCEPT
                         ![c] = [question |-> question[c], cypher |-> cypher[c],
                                 results |-> results[c],
                                 answer |-> outcome.value.s,
                                 approach |-> approach[c]]]
         /\ pc' = [pc EXCEPT ![c] = "done"]
         /\ UNCHANGED raised_in

\* answer = self._format_answer(results, question); return {...}
ConcFormatAndReturn(c) ==
    /\ pc[c] = "format"
    /\ ConcFormatReturn(c, _format_answer(results[c], question[c]))
    /\ UNCHANGED <<question, use_llm, openai_client, rule_result, parsed,
                   cypher, approach, env, llm_calls, store, exec_calls,
                   results>>

ConcNext ==
    \E c \in Calls :
        \/ ConcRuleBased(c)
        \/ ConcLlmBased(c)
        \/ ConcReturnNone(c)
        \/ ConcExecute(c)
        \/ ConcFormatAndReturn(c)

ConcSpec == ConcInit /\ [][ConcNext]_vars

----------------------------------------------------------------------------
(* Reading a query text: its lines without the indentation, and the        *)
(* clauses the properties are about.                                       *)

StripAll(lines) == [i \in 1..Len(lines) |-> Strip(lines[i])]

QueryLines(text) == StripAll(SplitLines(text))

HasLine(text, line) ==
    LET lines == QueryLines(text)
    IN  \E i \in 1..Len(lines) : lines[i] = line

\* a LIMIT clause
HasLimit(text) ==
    LET lines == QueryLines(text)
    IN  \E i \in 1..Len(lines) : StartsWithAt(lines[i], 1, "LIMIT ")

\* an ORDER BY clause
HasOrder(text) ==
    LET lines == QueryLines(text)
    IN  \E i \in 1..Len(lines) : StartsWithAt(lines[i], 1, "ORDER BY ")

\* the condition  r.year <op> <year>  in the WHERE clause; the year is
\* accepted as captured or as the decimal text of its value
HasYearFilter(text, op, year) ==
    LET lines == QueryLines(text)
    IN  \E i \in 1..Len(lines) :
          /\ \/ StartsWithAt(lines[i], 1, "WHERE ")
             \/ StartsWithAt(lines[i], 1, "AND ")
          /\ \/ EndsWith(lines[i], " r.year " \o op \o " " \o year)
             \/ EndsWith(lines[i],
                         " r.year " \o op \o " " \o IntToStr(ParseInt(year)))

\* an equality condition on r.year, whatever the year
HasYearEquality(text) ==
    LET lines == QueryLines(text)
    IN  \E i \in 1..Len(lines) : Contains(lines[i], " r.year = ")

MatchingRules(q) ==
    {i \in 1..NumRules : re_search(query_patterns[i], Strip(q)).ok}

Min(S) == CHOOSE i \in S : \A j \in S : i <= j

\* the lowest rule whose pattern matches, 0 when none does
FirstMatch(q) == IF MatchingRules(q) = {} THEN 0 ELSE Min(MatchingRules(q))

GroupsOf(q, i) == re_search(query_patterns[i], Strip(q)).groups

HandlerOutcome(q, i) == template(i, GroupsOf(q, i))

UpperAlpha == "ABCDEFGHIJKLMNOPQRSTUVWXYZ"

LowerAlpha == "abcdefghijklmnopqrstuvwxyz"

LowerChar(c) ==
    IF \E i \in 1..26 : CharAt(UpperAlpha, i) = c
    THEN CharAt(LowerAlpha, CHOOSE i \in 1..26 : CharAt(UpperAlpha, i) = c)
    ELSE c

RECURSIVE Lower(_)
Lower(s) ==
    IF Len(s) = 0 THEN ""
    ELSE LowerChar(CharAt(s, 1)) \o Lower(SubSeq(s, 2, Len(s)))

\* the rule whose pattern fired: the first whose handler was called
FiringRule(r) == IF r.tried = <<>> THEN 0 ELSE r.tried[1]

AbsoluteRules == {1, 3, 4, 5}

RelativeRules == {2, 6, 7, 8}

\* the year text a question gives to the handler of rule i: the group
\* (\d{4}), or for rule 1 the first run of four digits of the context
CapturedYear(q, i) ==
    IF i = 1
    THEN IF re_search(YearPattern, GroupsOf(q, 1)[2]).ok
         THEN re_search(YearPattern, GroupsOf(q, 1)[2]).groups[1]
         ELSE ""
    ELSE LastOf(GroupsOf(q, i))

\* the pattern with its (?:before|after) made a capturing group
WithQualifier(items) ==
    [k \in 1..Len(items) |->
       IF items[k].t = "alt" /\ items[k].opts = <<"before", "after">>
       THEN CapAlt(items[k].opts) ELSE items[k]]

\* the qualifier and the year of a question that matches relative rule i
QualifierOf(q, i) ==
    LET g == re_search(WithQualifier(query_patterns[i]), Strip(q)).groups
    IN  [relation |-> g[Len(g) - 1], year |-> g[Len(g)]]

----------------------------------------------------------------------------
(* C1.  Whenever rule_based_query yields a query for the question, the     *)
(* answer returned has approach 'rule-based' and that query as its cypher, *)
(* and llm_based_query is not called, even with use_llm true and a client  *)
(* configured; llm_based_query is called only when rule_based_query        *)
(* yielded no query.                                                       *)
C1_RuleBasedPreferred ==
    LET query == rule_based_query(question).value IN
    /\ llm_calls > 0 => ~Truthy(query)
    /\ Truthy(query) =>
         /\ pc \notin {"llm", "raised"}
         /\ pc = "done" =>
              /\ answer.approach = "rule-based"
              /\ answer.cypher = query
              /\ llm_calls = 0

C1_Witness ==
    /\ pc = "done"
    /\ use_llm
    /\ openai_client
    /\ Truthy(rule_result.value)
    /\ answer.approach = "rule-based"

(* C2.  rule_based_query scans the rules in registration order: the        *)
(* handler called first is that of the lowest rule whose pattern matches,  *)
(* the query returned is the one that handler builds from the rule's       *)
(* captured groups, and a question matched by no rule yields None.         *)
C2_FirstMatchWins ==
    pc # "start" =>
      LET first == FirstMatch(question) IN
      IF first = 0
      THEN rule_result.value = PyNone /\ rule_result.tried = <<>>
      ELSE LET outcome == HandlerOutcome(question, first) IN
           /\ FiringRule(rule_result) = first
           /\ IF outcome.raised
              THEN rule_result.value = PyNone
              ELSE /\ rule_result.value = outcome.value
                   /\ rule_result.fired = first
                   /\ rule_result.groups = GroupsOf(question, first)

C2_Witness ==
    /\ pc # "start"
    /\ Cardinality(MatchingRules(question)) >= 2
    /\ rule_result.fired = FirstMatch(question)
    /\ Truthy(rule_result.value)

(* C3.  Rule matching is case-insensitive: a question fires the same rule  *)
(* as every question that differs from it only in the case of letters,     *)
(* and 'Who won the championship in 2017?' fires the absolute              *)
(* championship rule, rule 4.                                              *)
C3_CaseInsensitive ==
    pc # "start" =>
      /\ \A q2 \in Questions :
           Lower(q2) = Lower(question) =>
             FiringRule(rule_based_query(q2)) = FiringRule(rule_result)
      /\ question = "Who won the championship in 2017?" =>
           FiringRule(rule_result) = 4

(* C4, as claimed.  When the handler of the first rule that matches        *)
(* raises, no later rule is tried and the result is None.                  *)
C4_NoRetry ==
    pc # "start" =>
      LET first == FirstMatch(question) IN
      (first # 0 /\ HandlerOutcome(question, first).raised)
      => /\ rule_result.tried = <<first>>
         /\ rule_result.value = PyNone

(* C4, as amended.  A handler that raises is skipped and the scan goes on: *)
(* the handlers called are those of all matching rules, in order, up to    *)
(* the first that does not raise, whose query is the result; the result is *)
(* None when every matching rule's handler raises.                         *)
C4_ContinueAfterRaise ==
    pc # "start" =>
      LET matching == MatchingRules(question)
          good == {i \in matching : ~HandlerOutcome(question, i).raised}
      IN  IF good = {}
          THEN /\ rule_result.value = PyNone
               /\ rule_result.tried = Ascending(matching)
          ELSE /\ rule_result.value = HandlerOutcome(question, Min(good)).value
               /\ rule_result.tried =
                    Ascending({i \in matching : i <= Min(good)})

C4_Witness ==
    /\ pc # "start"
    /\ Len(rule_result.tried) >= 2
    /\ HandlerOutcome(question, rule_result.tried[1]).raised
    /\ rule_result.value = PyNone

(* C5.  For a question that matches a relative rule (2, 6, 7, 8) with      *)
(* qualifier 'before' and year Y the query returned filters r.year < Y,    *)
(* orders by year descending and has LIMIT 5; with 'after' it filters      *)
(* r.year > Y, orders by year ascending and has LIMIT 5.                   *)
C5_RelativePolicy ==
    pc # "start" =>
      LET first == FirstMatch(question) IN
      first \in RelativeRules =>
        LET qualifier == QualifierOf(question, first) IN
        qualifier.relation \in {"before", "after"} =>
          /\ rule_result.value.type = "str"
          /\ HasYearFilter(rule_result.value.s,
                           IF qualifier.relation = "before" THEN "<" ELSE ">",
                           qualifier.year)
          /\ HasLine(rule_result.value.s,
                     IF qualifier.relation = "before"
                     THEN "ORDER BY r.year DESC" ELSE "ORDER BY r.year ASC")
          /\ HasLine(rule_result.value.s, "LIMIT 5")

(* C6.  _parse_temporal_context maps a context to one qualifier: the     *)
(* year is the first four-digit token with a value in 1950..2030; with a   *)
(* year and a keyword 'before' or 'after' the result is Before(year) or    *)
(* After(year), with a year alone Absolute(year), with no year None.  The  *)
(* qualifier is the pair (year, relation) its callers unpack.              *)
\* the years of a temporal qualifier
YearRange == 1950..2030

PyTuple(items) == [type |-> "tuple", items |-> items]

\* the positions of the four-digit runs of the context whose value is a year
YearTokens(context) ==
    {p \in 1..(Len(context) - 3) :
       /\ \A i \in p..(p + 3) : CharAt(context, i) \in Digits
       /\ ParseInt(SubSeq(context, p, p + 3)) \in YearRange}

ExpectedYear(context) ==
    IF YearTokens(context) = {} THEN PyNone
    ELSE PyInt(ParseInt(SubSeq(context, Min(YearTokens(context)),
                               Min(YearTokens(context)) + 3)))

ExpectedRelation(context) ==
    IF ExpectedYear(context) = PyNone THEN PyNone
    ELSE IF Contains(context, "before") THEN PyStr("before")
    ELSE IF Contains(context, "after") THEN PyStr("after")
    ELSE PyNone

C6_TemporalResolution ==
    \A k \in 1..Len(parsed) :
        parsed[k].result = PyTuple(<<ExpectedYear(parsed[k].context),
                                     ExpectedRelation(parsed[k].context)>>)

(* C7.  For a question that matches an absolute-year rule (1, 3, 4, 5) and *)
(* gives a four-digit year Y, the query returned has the equality filter   *)
(* r.year = Y.                                                             *)
C7_AbsoluteYearFilter ==
    pc # "start" =>
      LET first == FirstMatch(question) IN
      (first \in AbsoluteRules /\ CapturedYear(question, first) # "")
      => /\ rule_result.value.type = "str"
         /\ HasYearFilter(rule_result.value.s, "=",
                          CapturedYear(question, first))

\* the question matches absolute-year rule i and gives it Absolute(Y)
GivesAbsoluteYear(q, i) ==
    /\ i \in AbsoluteRules
    /\ CapturedYear(q, i) # ""
    /\ ParseInt(CapturedYear(q, i)) \in YearRange

(* C8, as claimed.  Every absolute-year handler (rules 1, 3, 4, 5)         *)
(* generates, for Absolute(Y), an equality filter on the year and no LIMIT *)
(* clause.                                                                 *)
C8_AbsoluteUnbounded ==
    pc # "start" =>
      LET first == FirstMatch(question) IN
      GivesAbsoluteYear(question, first)
      => /\ rule_result.value.type = "str"
         /\ HasYearFilter(rule_result.value.s, "=",
                          CapturedYear(question, first))
         /\ ~HasLimit(rule_result.value.s)

(* C8, as amended.  For Absolute(Y) the engineer, team and championship    *)
(* handlers (rules 1, 3, 4) generate the equality filter on the year with  *)
(* no ORDER BY and no LIMIT clause; the dominant-team handler (rule 5)     *)
(* generates the equality filter with ORDER BY dominance_score DESC and    *)
(* LIMIT 1.                                                                *)
C8_AbsolutePolicy ==
    pc # "start" =>
      LET first == FirstMatch(question) IN
      GivesAbsoluteYear(question, first)
      => /\ rule_result.value.type = "str"
         /\ HasYearFilter(rule_result.value.s, "=",
                          CapturedYear(question, first))
         /\ first \in {1, 3, 4} =>
              /\ ~HasOrder(rule_result.value.s)
              /\ ~HasLimit(rule_result.value.s)
         /\ first = 5 =>
              /\ HasLine(rule_result.value.s, "ORDER BY dominance_score DESC")
              /\ HasLine(rule_result.value.s, "LIMIT 1")

C8_Witness ==
    /\ pc # "start"
    /\ rule_result.fired = 5
    /\ HasYearFilter(rule_result.value.s, "=", rule_result.groups[1])
    /\ HasLine(rule_result.value.s, "LIMIT 1")

(* C9.  Whenever a handler is called with a context that has no year, the  *)
(* query returned is the one it generates, ordered by r.year descending    *)
(* with LIMIT 1.                                                           *)
C9_NoCueMostRecent ==
    pc # "start" =>
      \A k \in 1..Len(rule_result.tried) :
        ~re_search(YearPattern,
                   LastOf(GroupsOf(question, rule_result.tried[k]))).ok
        => /\ rule_result.fired = rule_result.tried[k]
           /\ rule_result.value.type = "str"
           /\ HasLine(rule_result.value.s, "ORDER BY r.year DESC")
           /\ HasLine(rule_result.value.s, "LIMIT 1")

C9_Witness ==
    /\ pc # "start"
    /\ rule_result.fired = 1
    /\ ~re_search(YearPattern, rule_result.groups[2]).ok
    /\ HasLine(rule_result.value.s, "ORDER BY r.year DESC")
    /\ HasLine(rule_result.value.s, "LIMIT 1")

(* C10.  execute_query never lets a failure reach its caller: when a step  *)
(* of the store fails it returns the empty list, and otherwise the rows of *)
(* the store, in the store's order, each as the mapping of its columns.    *)
C10_ExecuteNeverRaises ==
    /\ raised_in # "execute_query"
    /\ exec_calls > 0 =>
         /\ pc \in {"format", "done", "raised"}
         /\ store.fail # "none" => results = <<>>
         /\ store.fail = "none" =>
              /\ Len(results) = Len(store.rows)
              /\ \A i \in 1..Len(results) :
                   /\ Len(results[i]) = Len(store.rows[i])
                   /\ \A j \in 1..Len(store.rows[i]) :
                        /\ results[i][j][1] = store.rows[i][j][1]
                        /\ Get(results[i], store.rows[i][j][1], PyNone)
                             = store.rows[i][j][2]

C10_Witness ==
    /\ pc = "done"
    /\ exec_calls = 1
    /\ store.fail \in StoreFailures
    /\ results = <<>>
    /\ answer.cypher = cypher

----------------------------------------------------------------------------
(* The answer returned when no query was obtained.                         *)
NotUnderstood(q) ==
    [question |-> q, cypher |-> PyNone, results |-> <<>>,
     answer |-> ApologyNotUnderstood, approach |-> "none"]

(* C11.  answer_question never raises and always ends by returning: for    *)
(* every question, every use_llm and every success or failure of the store *)
(* and of the model during any stage, no exception leaves it, and the      *)
(* answer returned carries a formatted text or one of the two apologies.   *)
C11_NeverRaises ==
    /\ pc # "raised"
    /\ raised_in = ""
    /\ pc = "done" =>
         \/ answer.answer = ApologyNotUnderstood
         \/ answer.answer = ApologyNoAnswer
         \/ /\ Len(results) > 0
            /\ answer.answer = _format_answer(results, question).value.s

(* C12.  When no rule produces a query and the model is absent (no client  *)
(* configured, or use_llm false) or the completion call fails, the answer  *)
(* returned has approach 'none', a null query, no rows and the text        *)
(* "Sorry, I couldn't understand that question.", and execute_query is     *)
(* never called.                                                           *)
C12_ModelUnavailableCase ==
    /\ pc # "start"
    /\ ~Truthy(rule_result.value)
    /\ \/ ~use_llm
       \/ ~openai_client
       \/ /\ llm_calls = 1
          /\ env.schema = "ok"
          /\ env.model.kind = "error"

C12_ModelUnavailable ==
    C12_ModelUnavailableCase =>
      /\ pc \in {"llm", "check", "done"}
      /\ exec_calls = 0
      /\ results = <<>>
      /\ pc = "check" => ~Truthy(cypher)
      /\ pc = "done" => answer = NotUnderstood(question)

C12_Witness ==
    /\ pc = "done"
    /\ use_llm
    /\ openai_client
    /\ llm_calls = 1
    /\ env.schema = "ok"
    /\ env.model.kind = "error"
    /\ answer = NotUnderstood(question)
    /\ exec_calls = 0

\* the completion of the fallback was a text
ModelGaveText ==
    /\ llm_calls = 1
    /\ env.schema = "ok"
    /\ env.model.kind = "content"
    /\ env.model.content.type = "str"

(* C13, as claimed.  When the model returns a text that is empty, or that  *)
(* the fence stripping reduces to the empty text, answer_question still    *)
(* passes it to execute_query, and the answer is formatted from the rows   *)
(* that come back, with approach 'llm-based'.                              *)
C13_ForwardsMalformed ==
    (pc = "done" /\ ModelGaveText /\ StripFence(env.model.content.s) = "") =>
      /\ exec_calls = 1
      /\ answer.approach = "llm-based"
      /\ answer.cypher = PyStr("")
      /\ answer.answer = _format_answer(results, question).value.s

(* C13, amended.  A model text that is empty after trimming and fence      *)
(* stripping counts as no query: the answer has approach 'none', a null    *)
(* query and the not-understood text, and execute_query is not called.     *)
(* Every other text, usable or not, is passed to execute_query unchanged   *)
(* and the answer is formatted from the rows, with approach 'llm-based'.   *)
C13_EmptyIsNoQuery ==
    (pc = "done" /\ ModelGaveText) =>
      LET text == StripFence(env.model.content.s) IN
      IF text = ""
      THEN /\ answer = NotUnderstood(question)
           /\ exec_calls = 0
      ELSE /\ exec_calls = 1
           /\ answer.approach = "llm-based"
           /\ answer.cypher = PyStr(text)
           /\ answer.results = results
           /\ store.fail # "none" => answer.answer = ApologyNoAnswer
           /\ answer.answer = _format_answer(results, question).value.s

C13_Witness ==
    /\ pc = "done"
    /\ ModelGaveText
    /\ env.model.content.s # ""
    /\ StripFence(env.model.content.s) = ""
    /\ answer.approach = "none"
    /\ exec_calls = 0

(* C14.  Whenever a query was obtained and execute_query yields no row,    *)
(* because the result is empty or because the execution failed, the text   *)
(* of the answer is exactly "I couldn't find an answer to that question in *)
(* the knowledge graph."                                                   *)
C14_ZeroRowsApology ==
    (pc = "done" /\ exec_calls = 1 /\ Len(results) = 0) =>
      /\ answer.cypher # PyNone
      /\ answer.results = <<>>
      /\ answer.answer = "I couldn't find an answer to that question in the knowledge graph."

C14_Witness ==
    /\ pc = "done"
    /\ exec_calls = 1
    /\ store.fail = "run"
    /\ answer.answer = ApologyNoAnswer

----------------------------------------------------------------------------
(* The formatter's properties, stated on the calls of FormatSpec.          *)

\* the values the claims call absent-like: null, 0 and the empty text
NoYear(row) ==
    \/ ~Has(row, "year")
    \/ Get(row, "year", PyNone) \in {PyNone, PyInt(0), PyStr("")}

\* what _format_answer does with the row alone
Alone(row) == _format_answer(<<row>>, "")

\* the rows that count in a list
Top(rows) == SubSeq(rows, 1, Min({Len(rows), 5}))

(* C15.  For a result of exactly one row that has an `answer` field,       *)
(* _format_answer returns "<answer> (in <year>)" when the row has a `year` *)
(* field with a truthy value, and "<answer>" when the year is absent,      *)
(* null, 0 or empty; {answer: "Peter Bonnington", year: 2017} gives        *)
(* "Peter Bonnington (in 2017)".                                           *)
C15_OneRowRendering ==
    (pc # "format" /\ Len(results) = 1 /\ Has(results[1], "answer")) =>
      LET row == results[1]
          a == Format(Get(row, "answer", PyNone))
      IN  /\ pc = "done"
          /\ answer.answer = IF NoYear(row) THEN a
                             ELSE a \o " (in " \o Format(Get(row, "year", PyNone)) \o ")"
          /\ row = Row1 => answer.answer = "Peter Bonnington (in 2017)"

C15_Witness ==
    /\ pc = "done"
    /\ results = <<Row1>>
    /\ answer.answer = "Peter Bonnington (in 2017)"

(* C16, as claimed.  For a result of n >= 2 rows, _format_answer returns   *)
(* the renderings of the first min(n, 5) rows, each exactly as             *)
(* _format_answer renders that row alone, joined with "; ".                *)
C16_EachAsAlone ==
    (pc = "done" /\ Len(results) >= 2) =>
      LET top == Top(results) IN
      answer.answer = Join([i \in 1..Len(top) |-> Alone(top[i]).value.s], "; ")

\* the rendering of a row in a list: the year without the word "in"
Listed(row) ==
    IF Has(row, "answer") /\ ~NoYear(row)
    THEN Format(Get(row, "answer", PyNone)) \o " ("
         \o Format(Get(row, "year", PyNone)) \o ")"
    ELSE Alone(row).value.s

(* C16, amended.  For a result of n >= 2 rows, _format_answer returns the  *)
(* renderings of the first min(n, 5) rows joined with "; ", each rendered  *)
(* as _format_answer renders that row alone except that a truthy year is   *)
(* appended as " (<year>)" and not " (in <year>)"; it raises exactly when  *)
(* rendering one of these rows alone raises; rows after the fifth do not   *)
(* affect the outcome.                                                     *)
C16_ListRendering ==
    (pc # "format" /\ Len(results) >= 2) =>
      LET top == Top(results) IN
      IF \E i \in 1..Len(top) : Alone(top[i]).raised
      THEN pc = "raised"
      ELSE /\ pc = "done"
           /\ answer.answer = Join([i \in 1..Len(top) |-> Listed(top[i])], "; ")

C16_Witness ==
    /\ pc = "done"
    /\ results = <<Row1, Row2, Row3, Row4, Row5, EmptyRow>>
    /\ answer.answer = "Peter Bonnington (2017); Mercedes; Red Bull Racing; Lewis Hamilton; 44"

(* C17.  _format_answer can interpret every row shape: for any list of     *)
(* rows it returns a text without failing, whatever columns the rows       *)
(* have, and a row without an `answer` field is rendered as the text of    *)
(* its first column's value.                                               *)
C17_AnyRowShape ==
    pc # "format" =>
      /\ pc = "done"
      /\ (Len(results) = 1 /\ ~Has(results[1], "answer")) =>
           answer.answer = Format(results[1][1][2])

----------------------------------------------------------------------------
(* C18.  In every run of answer_question the stages come in the order rule *)
(* matching, fallback generation (only when no rule gave a query),         *)
(* execution, formatting: execute_query is called at most once and only    *)
(* once a query was obtained, _format_answer is called only after          *)
(* execute_query returned, and when no query is obtained neither of them   *)
(* is called.                                                              *)
C18_StageOrder ==
    /\ llm_calls <= 1
    /\ exec_calls <= 1
    /\ pc = "start" => (llm_calls = 0 /\ exec_calls = 0 /\ answer = NoAnswer)
    /\ pc = "llm" => (llm_calls = 0 /\ exec_calls = 0 /\ answer = NoAnswer)
    /\ llm_calls = 1 => (pc # "start" /\ ~Truthy(rule_result.value))
    /\ exec_calls = 1 =>
         /\ pc \in {"format", "done"}
         /\ Truthy(cypher)
         /\ cypher = rule_result.value \/ (llm_calls = 1 /\ approach = "llm-based")
    /\ pc = "format" => (exec_calls = 1 /\ answer = NoAnswer)
    /\ pc = "done" =>
         IF Truthy(cypher)
         THEN /\ exec_calls = 1
              /\ answer.results = results
              /\ answer.answer = _format_answer(results, question).value.s
         ELSE /\ exec_calls = 0
              /\ answer = NotUnderstood(question)
    /\ pc = "raised" => answer = NoAnswer

C18_Witness ==
    /\ pc = "done"
    /\ llm_calls = 1
    /\ exec_calls = 1
    /\ answer.approach = "llm-based"
    /\ Len(answer.results) > 0

----------------------------------------------------------------------------
(* The text a fenced completion encloses: the lines after the line of the  *)
(* opening fence, up to the line that is the closing fence, or all of them *)
(* when no line closes the fence.                                          *)
ClosingFences(lines) == {i \in 1..Len(lines) : Strip(lines[i]) = Fence}

Enclosed(lines) ==
    IF ClosingFences(lines) = {} THEN lines
    ELSE SubSeq(lines, 1, Min(ClosingFences(lines)) - 1)

Unfenced(content) ==
    LET text == Strip(content) IN
    IF StartsWithAt(text, 1, Fence)
    THEN Join(Enclosed(Tail(SplitLines(text))), "\n")
    ELSE text

(* C20.  llm_based_query removes only a single enclosing code fence: for   *)
(* every model output, if the trimmed text begins with a fence the result  *)
(* is the text between the line of the opening fence and the closing       *)
(* fence, with no line of the query itself removed, and if it has no fence *)
(* the trimmed text is returned unchanged, without any validation.         *)
C20_OnlyFenceRemoved ==
    (ModelGaveText /\ pc \in {"check", "format", "done"}) =>
      cypher = PyStr(Unfenced(env.model.content.s))

----------------------------------------------------------------------------
(* What answer_question gives for the question asked alone, on a converter *)
(* with this client, when the model and the store respond as e and st.     *)
NoneAlone == [raised |-> TRUE, answer |-> NoAnswer]

FallbackAlone(q, llm, client, e) ==
    IF NeedsFallback(rule_based_query(q).value, llm)
    THEN [outcome |-> llm_based_query(q, client, e), approach |-> "llm-based"]
    ELSE [outcome |-> Returned(rule_based_query(q).value),
          approach |-> "rule-based"]

FormattedAlone(q, query, how, rows) ==
    LET text == _format_answer(rows, q) IN
    IF text.raised THEN NoneAlone
    ELSE [raised |-> FALSE,
          answer |-> [question |-> q, cypher |-> query, results |-> rows,
                      answer |-> text.value.s, approach |-> how]]

AnswerAlone(q, llm, client, e, st) ==
    LET got == FallbackAlone(q, llm, client, e) IN
    IF got.outcome.raised THEN NoneAlone
    ELSE IF ~Truthy(got.outcome.value)
    THEN [raised |-> FALSE, answer |-> NotUnderstood(q)]
    ELSE FormattedAlone(q, got.outcome.value, got.approach,
                        execute_query(got.outcome.value.s, st).value.items)

AloneOf(c) ==
    AnswerAlone(question[c], use_llm[c], openai_client, env[c], store[c])

(* C19.  Questions answered concurrently on one shared converter are       *)
(* independent: no step of answer_question changes the converter's state,  *)
(* and under every interleaving of the calls each call ends as it does     *)
(* when its question is answered alone with the same responses of the      *)
(* store and of the model: with the same answer, or by raising when the    *)
(* call alone raises.                                                      *)
C19_Independent ==
    /\ [](\A c \in Calls :
            /\ pc[c] = "done" =>
                 (~AloneOf(c).raised /\ answer[c] = AloneOf(c).answer)
            /\ pc[c] = "raised" => AloneOf(c).raised)
    /\ [][openai_client' = openai_client]_vars

C19_Witness ==
    /\ pc[1] = "done"
    /\ pc[2] = "done"
    /\ question[1] # question[2]
    /\ answer[1].approach = "llm-based"
    /\ answer[2].approach = "rule-based"
    /\ answer[1].results # answer[2].results
    /\ Len(answer[1].results) > 0
    /\ Len(answer[2].results) > 0

----------------------------------------------------------------------------
(* C21.  Every answer returned by answer_question satisfies: approach is   *)
(* one of 'rule-based', 'llm-based', 'none'; the query is null exactly     *)
(* when approach is 'none', and then there are no rows; approach is        *)
(* 'llm-based' only if use_llm was true and rule_based_query yielded no    *)
(* query; and the rows are exactly what execute_query returned for the     *)
(* query returned.                                                         *)
C21_AnswerShape ==
    pc = "done" =>
      /\ answer.question = question
      /\ answer.approach \in {"rule-based", "llm-based", "none"}
      /\ (answer.cypher = PyNone) <=> (answer.approach = "none")
      /\ answer.approach = "none" => (answer.results = <<>> /\ exec_calls = 0)
      /\ answer.approach = "llm-based" =>
           (use_llm /\ ~Truthy(rule_based_query(question).value))
      /\ answer.approach = "rule-based" =>
           answer.cypher = rule_based_query(question).value
      /\ answer.approach # "none" =>
           /\ exec_calls = 1
           /\ answer.cypher.type = "str"
           /\ answer.results = execute_query(answer.cypher.s, store).value.items

C21_Witness ==
    /\ pc = "done"
    /\ answer.approach = "llm-based"
    /\ use_llm
    /\ answer.cypher # PyNone
    /\ store.fail = "none"
    /\ Len(answer.results) >= 2

====
